---------------------------- MODULE Spec2Model ----------------------------
(***************************************************************************)
(* The typed binding layer of the pricing engine: the PricingEngine facade *)
(* of openpricing/engine.py over the native library's C ABI, and the       *)
(* generator of typed bindings of openpricing/codegen.py.                  *)
(*                                                                         *)
(* The native library is reached only through its primitives; they are     *)
(* modelled from their documented contract (the pricing_* operators).      *)
(* Everything else is translated from engine.py and codegen.py.            *)
(***************************************************************************)
EXTENDS Integers, Sequences, FiniteSets, TLC

(***************************************************************************)
(* Bounds of the model.                                                    *)
(***************************************************************************)
\* longest value sequence of a batch request
MaxBatch == 2
\* most invocations of the enumerate primitive followed in one behaviour
MaxCalls == 2

(***************************************************************************)
(* Program constants.                                                      *)
(***************************************************************************)
\* engine.py:148  max_inputs = 100
max_inputs == 100
\* engine.py:149  ctypes.create_string_buffer(256)
buffer_size == 256
\* engine.py:220  if result == -3
NotFoundCode == -3
\* engine.py:328  if ret == -1
MismatchCode == -1

(***************************************************************************)
(* Python values.  A number is an int or a float; float() and c_double     *)
(* turn either into a double of the same numeric value.  bytes and str are *)
(* different types; identifiers are ASCII, so UTF-8 keeps the characters.  *)
(***************************************************************************)
PyInt(n) == [t |-> "int", v |-> n]
PyFloat(n) == [t |-> "float", v |-> n]

\* float(x), c_double(x)
float(x) == PyFloat(x.v)

\* Python's == on numbers: 1 == 1.0
NumEq(x, y) == x.v = y.v

\* str.encode('utf-8')
encode(s) == [bytes |-> s]

\* bytes.decode('utf-8')
decode(b) == b.bytes

\* c_int(n): a 32-bit signed integer; every count of the model is far below
\* 2^31 (at most max_inputs identifiers, at most MaxBatch rows), where c_int
\* keeps the number
c_int(n) == n

\* the numbers a caller passes
Values == {PyInt(1), PyFloat(2)}

\* the identifiers a caller may use
IdPool == {"a", "b"}

(***************************************************************************)
(* Python containers.  A dict is the sequence of its items in insertion    *)
(* order, with unique keys.  Optional[T] is None or Some(value).           *)
(***************************************************************************)
None == [some |-> FALSE, val |-> <<>>]
Some(v) == [some |-> TRUE, val |-> v]

Range(s) == {s[i] : i \in 1..Len(s)}

\* dict.keys()
keys(d) == {d[i].k : i \in 1..Len(d)}

\* d[key], for a key of d
getitem(d, key) == d[CHOOSE i \in 1..Len(d) : d[i].k = key].v

\* node.get(field, default) on a JSON object
get(node, field, default) == IF field \in DOMAIN node THEN node[field] ELSE default

\* sep.join(strs)
RECURSIVE join(_, _)
join(sep, strs) ==
    IF Len(strs) = 0 THEN ""
    ELSE IF Len(strs) = 1 THEN strs[1]
    ELSE strs[1] \o sep \o join(sep, Tail(strs))

\* how a handler ends: it returns a value or raises an exception whose
\* message is a sequence of parts, each a text with the identifiers and the
\* code formatted into it
Return(v) == [kind |-> "return", exc |-> "", msg |-> <<>>, value |-> v]
Raise(exc, msg) == [kind |-> "raise", exc |-> exc, msg |-> msg, value |-> <<>>]
Part(text, ids, code) == [text |-> text, ids |-> ids, code |-> code]

\* one call across the ABI boundary
Call(fn, args, ret) == [fn |-> fn, args |-> args, ret |-> ret]

(***************************************************************************)
(* The native library.  A loaded engine has a fixed ordered list of        *)
(* dynamic inputs and a node count; the scalar path keeps the value last   *)
(* set for each input.                                                     *)
(***************************************************************************)
\* an engine with more dynamic inputs than the facade has buffers
OversizeIds == [i \in 1..(max_inputs + 1) |-> "in" \o ToString(i)]

Engines ==
    { [ids |-> <<>>, nodes |-> 0],
      [ids |-> <<"a">>, nodes |-> 2],
      [ids |-> <<"b", "a">>, nodes |-> 3],
      [ids |-> OversizeIds, nodes |-> max_inputs + 2] }

\* the negative value the enumerate primitive returns on failure
EnumFailCode == -1

\* return codes an engine fault can produce (0: no fault)
FaultCodes == {0, MismatchCode, NotFoundCode, 5}

\* ctypes.create_string_buffer(size): size NUL bytes
create_string_buffer(size) == [size |-> size, bytes |-> ""]

\* buffer.value: the bytes before the first NUL
value(buffer) == [bytes |-> buffer.bytes]

\* pricing_get_dynamic_inputs(buffers, buf_size, max_count)
pricing_get_dynamic_inputs(engine, buffers, buf_size, max_count) ==
    IF \/ Len(engine.ids) > max_count
       \/ \E i \in 1..Len(engine.ids) : Len(engine.ids[i]) + 1 > buf_size
    THEN [ret |-> EnumFailCode, buffers |-> buffers]
    ELSE [ret |-> Len(engine.ids),
          buffers |-> [i \in 1..Len(buffers) |->
                         IF i <= Len(engine.ids)
                         THEN [buffers[i] EXCEPT !.bytes = encode(engine.ids[i]).bytes]
                         ELSE buffers[i]]]

\* pricing_node_count()
pricing_node_count(engine) == engine.nodes

\* the sum of k * row[k] over k in lo..hi, halving the range
RECURSIVE WeightedSum(_, _, _)
WeightedSum(row, lo, hi) ==
    IF lo > hi THEN 0
    ELSE IF lo = hi THEN lo * row[lo].v
    ELSE WeightedSum(row, lo, (lo + hi) \div 2) + WeightedSum(row, (lo + hi) \div 2 + 1, hi)

\* the engine's evaluation of one row of doubles, given in engine input order
EngineEval(row) == WeightedSum(row, 1, Len(row))

\* pricing_calculate_batch(flat_inputs, num_inputs, batch_size, out)
pricing_calculate_batch(engine, flat, num_inputs, batch_size, out, fault) ==
    IF fault # 0 THEN [ret |-> fault, out |-> out]
    ELSE IF num_inputs # Len(engine.ids) THEN [ret |-> MismatchCode, out |-> out]
    ELSE [ret |-> 0,
          out |-> [r \in 1..batch_size |->
                     PyFloat(EngineEval(SubSeq(flat, (r - 1) * num_inputs + 1,
                                               r * num_inputs)))]]

(***************************************************************************)
(* The schema file at model_json_path, when the facade was given one that  *)
(* exists: a JSON document with a list of nodes.                           *)
(***************************************************************************)
NoSchema == [exists |-> FALSE, nodes |-> <<>>]

SchemaFiles ==
    { NoSchema,
      [exists |-> TRUE,
       nodes |-> << [id |-> "a", operation |-> "dynamic_input_str",
                     allowed_str_values |-> <<"gold", "silver">>,
                     metadata |-> [name |-> "Tier", description |-> "customer tier"]],
                    [id |-> "k", operation |-> "constant"] >>],
      [exists |-> TRUE,
       nodes |-> << [id |-> "b", operation |-> "dynamic_input_num",
                     allowed_values |-> <<PyInt(1), PyInt(2)>>],
                    [operation |-> "dynamic_input_num"] >>],
      [exists |-> TRUE,
       nodes |-> << [id |-> "a", operation |-> "dynamic_input_str",
                     allowed_str_values |-> <<>>,
                     metadata |-> [name |-> "Tier"]],
                    [id |-> "b", operation |-> "dynamic_input_num",
                     allowed_values |-> <<PyInt(1), PyInt(2)>>,
                     metadata |-> [description |-> "base price"]],
                    [id |-> "k", operation |-> "constant"] >>] }

(***************************************************************************)
(* The state of one facade and of the library it loaded.                   *)
(***************************************************************************)
VARIABLES
    lib,                 \* self._lib: the loaded engine
    model_json,          \* the file at self._model_json_path
    _dynamic_input_ids,  \* self._dynamic_input_ids: Optional[List[str]]
    _model_info,         \* self._model_info: Optional[ModelInfo]
    inputValues,         \* the engine's scalar inputs: identifier -> double
    enumLog,             \* return codes of the enumerate primitive, in call order
    request,             \* the argument the caller passes: the mapping of
                         \* calculate_batch, the keyword arguments of calculate
    last,                \* the operation that ran last: its ABI calls and outcome
    main,                \* the batch example's main(): position and locals
    threads,             \* the threads of control inside calculate on the one facade
    stubs,               \* what the runs of generate_typed_stub ended in, in run order
    output_file          \* the file at output_path: Optional[str]

vars == <<lib, model_json, _dynamic_input_ids, _model_info, inputValues, enumLog,
          request, last, main, threads, stubs, output_file>>

\* what the facade's own operations leave alone
elsewhere == <<threads, stubs, output_file>>

(***************************************************************************)
(* PricingEngine._get_dynamic_input_ids and the dynamic_input_ids property *)
(* Every handler yields the calls it made across the ABI and its outcome,  *)
(* with the fields of the facade it assigned.                              *)
(***************************************************************************)
\* mutant of read_buffers: the last buffer written is not read
read_buffers_short(buffers, num_inputs) ==
    [i \in 1..(num_inputs - 1) |-> decode(value(buffers[i]))]

\* [buffers[i].value.decode('utf-8') for i in range(num_inputs)]
read_buffers(buffers, num_inputs) ==
    [i \in 1..num_inputs |-> decode(value(buffers[i]))]

\* mutant of enumerated: a negative count is read as no identifiers
enumerated_lenient(r) ==
    [calls |-> <<Call("pricing_get_dynamic_inputs", <<buffer_size, max_inputs>>, r.ret)>>,
     out |-> Return(read_buffers(r.buffers, IF r.ret < 0 THEN 0 ELSE r.ret))]

\* what _get_dynamic_input_ids does with the primitive's answer r
enumerated(r) ==
    [calls |-> <<Call("pricing_get_dynamic_inputs", <<buffer_size, max_inputs>>, r.ret)>>,
     out |-> IF r.ret < 0
             THEN Raise("RuntimeError",
                        <<Part("Failed to get dynamic inputs from library", {}, 0)>>)
             ELSE IF r.ret > Len(r.buffers)
             THEN Raise("IndexError", <<Part("list index out of range", {}, 0)>>)
             ELSE Return(read_buffers(r.buffers, r.ret))]

_get_dynamic_input_ids(engine) ==
    enumerated(pricing_get_dynamic_inputs(
                   engine,
                   [i \in 1..max_inputs |-> create_string_buffer(buffer_size)],
                   buffer_size, max_inputs))

\* self._dynamic_input_ids = <g>, unless g raised
fill_cache(cache, g) ==
    [cache |-> IF g.out.kind = "raise" THEN cache ELSE Some(g.out.value),
     calls |-> g.calls, out |-> g.out]

\* mutant of dynamic_input_ids: the cache is written and never consulted
dynamic_input_ids_uncached(cache, engine) ==
    fill_cache(cache, _get_dynamic_input_ids(engine))

\* the property: fills the cache on the first read that succeeds
dynamic_input_ids(cache, engine) ==
    IF ~cache.some
    THEN fill_cache(cache, _get_dynamic_input_ids(engine))
    ELSE [cache |-> cache, calls |-> <<>>, out |-> Return(cache.val)]

(***************************************************************************)
(* PricingEngine.calculate_batch                                           *)
(***************************************************************************)
\* mutant of interleave: the loops nested the other way round (column by column)
interleave_columns(sequences, row_idx, batch_size) ==
    [j \in 1..(Len(sequences) * batch_size) |->
       float(sequences[((j - 1) \div batch_size) + 1][((j - 1) % batch_size) + 1])]

\* the two nested loops appending float(seq[row_idx]), row by row
RECURSIVE interleave(_, _, _)
interleave(sequences, row_idx, batch_size) ==
    IF row_idx > batch_size THEN <<>>
    ELSE [k \in 1..Len(sequences) |-> float(sequences[k][row_idx])]
         \o interleave(sequences, row_idx + 1, batch_size)

\* mutant of sequences_of: list(inputs.values()), the dict's insertion order
sequences_by_insertion(inputs, input_ids) ==
    [i \in 1..Len(input_ids) |-> inputs[i].v]

\* sequences = [inputs[id_] for id_ in input_ids]
sequences_of(inputs, input_ids) ==
    [i \in 1..Len(input_ids) |-> getitem(inputs, input_ids[i])]

\* mutant of mismatch_msg: only the first kind of mismatch is reported
mismatch_msg_first(inputs, input_ids) ==
    IF Range(input_ids) \ keys(inputs) # {}
    THEN <<Part("Missing inputs: ", Range(input_ids) \ keys(inputs), 0)>>
    ELSE <<Part("Unknown inputs: ", keys(inputs) \ Range(input_ids), 0)>>

\* the message of the key-set check
mismatch_msg(inputs, input_ids) ==
    (IF Range(input_ids) \ keys(inputs) # {}
     THEN <<Part("Missing inputs: ", Range(input_ids) \ keys(inputs), 0)>> ELSE <<>>)
    \o (IF keys(inputs) \ Range(input_ids) # {}
        THEN <<Part("Unknown inputs: ", keys(inputs) \ Range(input_ids), 0)>> ELSE <<>>)

\* mutant of batch_result: only negative codes are taken for failures
batch_result_negative(ret, num_inputs, input_ids, results_c_array) ==
    IF ret = MismatchCode
    THEN Raise("ValueError",
               <<Part("Input count mismatch: provided ", {}, num_inputs),
                 Part("model expects ", {}, Len(input_ids))>>)
    ELSE IF ret < 0
    THEN Raise("RuntimeError",
               <<Part("Batch calculation failed with error code: ", {}, ret)>>)
    ELSE Return(results_c_array)

\* the translation of the batch primitive's return code
batch_result(ret, num_inputs, input_ids, results_c_array) ==
    IF ret = MismatchCode
    THEN Raise("ValueError",
               <<Part("Input count mismatch: provided ", {}, num_inputs),
                 Part("model expects ", {}, Len(input_ids))>>)
    ELSE IF ret # 0
    THEN Raise("RuntimeError",
               <<Part("Batch calculation failed with error code: ", {}, ret)>>)
    ELSE Return(results_c_array)

\* after the batch primitive answered r
batch_called(p, input_ids, input_flat, num_inputs, batch_size, r) ==
    [p EXCEPT !.calls = Append(p.calls,
                               Call("pricing_calculate_batch",
                                    <<input_flat, c_int(num_inputs), c_int(batch_size)>>,
                                    r.ret)),
              !.out = batch_result(r.ret, num_inputs, input_ids, r.out)]

\* the flattening and the call, once the lengths were checked
batch_flat(p, engine, input_ids, input_flat, num_inputs, batch_size, fault) ==
    batch_called(p, input_ids, input_flat, num_inputs, batch_size,
                 pricing_calculate_batch(engine, input_flat, c_int(num_inputs),
                                         c_int(batch_size),
                                         [r \in 1..batch_size |-> PyFloat(0)], fault))

\* mutant of batch_sequences: the lengths are checked after the batch call
batch_sequences_late(p, engine, input_ids, sequences, batch_size, fault) ==
    IF \E i \in 1..Len(sequences) : Len(sequences[i]) # batch_size
    THEN [p EXCEPT !.calls = Append(p.calls,
                                    Call("pricing_calculate_batch",
                                         <<<<>>, Len(input_ids), batch_size>>, 0)),
                   !.out = Raise("ValueError",
                                 <<Part("All input sequences must have the same length",
                                        {}, 0)>>)]
    ELSE batch_flat(p, engine, input_ids, interleave(sequences, 1, batch_size),
                    Len(input_ids), batch_size, fault)

\* mutant of batch_sequences: only sequences shorter than the first are refused
batch_sequences_shorter(p, engine, input_ids, sequences, batch_size, fault) ==
    IF \E i \in 1..Len(sequences) : Len(sequences[i]) < batch_size
    THEN [p EXCEPT !.out =
            Raise("ValueError",
                  <<Part("All input sequences must have the same length", {}, 0)>>)]
    ELSE batch_flat(p, engine, input_ids, interleave(sequences, 1, batch_size),
                    Len(input_ids), batch_size, fault)

\* the length check on sequences, batch_size being len(sequences[0])
batch_sequences(p, engine, input_ids, sequences, batch_size, fault) ==
    IF \E i \in 1..Len(sequences) : Len(sequences[i]) # batch_size
    THEN [p EXCEPT !.out =
            Raise("ValueError",
                  <<Part("All input sequences must have the same length", {}, 0)>>)]
    ELSE batch_flat(p, engine, input_ids, interleave(sequences, 1, batch_size),
                    Len(input_ids), batch_size, fault)

\* the body of calculate_batch after input_ids = self.dynamic_input_ids
batch_validated(p, engine, input_ids, inputs, fault) ==
    IF keys(inputs) # Range(input_ids)
    THEN [p EXCEPT !.out = Raise("ValueError", mismatch_msg(inputs, input_ids))]
    ELSE IF Len(input_ids) = 0
    THEN [p EXCEPT !.out = Raise("IndexError",
                                 <<Part("list index out of range", {}, 0)>>)]
    ELSE batch_sequences(p, engine, input_ids, sequences_of(inputs, input_ids),
                         Len(getitem(inputs, input_ids[1])), fault)

batch_with_ids(p, engine, inputs, fault) ==
    IF p.out.kind = "raise" THEN p
    ELSE batch_validated(p, engine, p.out.value, inputs, fault)

calculate_batch(cache, engine, inputs, fault) ==
    batch_with_ids(dynamic_input_ids(cache, engine), engine, inputs, fault)

(***************************************************************************)
(* PricingEngine._load_model_info, the model_info property and __repr__    *)
(***************************************************************************)
\* json_metadata.get(input_id, {}): the last node stored under the identifier
metadata_of(nodes, input_id) ==
    IF \A i \in 1..Len(nodes) : nodes[i]["id"] # input_id THEN <<>>
    ELSE nodes[CHOOSE i \in 1..Len(nodes) :
                 /\ nodes[i]["id"] = input_id
                 /\ \A j \in (i + 1)..Len(nodes) : nodes[j]["id"] # input_id]

\* mutant of dynamic_input: a missing display name is left empty
dynamic_input_unnamed(input_id, meta, input_type) ==
    [id |-> input_id,
     name |-> get(get(meta, "metadata", <<>>), "name", ""),
     description |-> get(get(meta, "metadata", <<>>), "description", ""),
     input_type |-> input_type,
     allowed_values |->
        IF Len(get(meta, IF input_type = "str" THEN "allowed_str_values"
                         ELSE "allowed_values", <<>>)) = 0
        THEN None
        ELSE Some(get(meta, IF input_type = "str" THEN "allowed_str_values"
                            ELSE "allowed_values", <<>>))]

\* the DynamicInput built from the node meta found for an identifier
dynamic_input(input_id, meta, input_type) ==
    [id |-> input_id,
     name |-> get(get(meta, "metadata", <<>>), "name", input_id),
     description |-> get(get(meta, "metadata", <<>>), "description", ""),
     input_type |-> input_type,
     allowed_values |->
        IF Len(get(meta, IF input_type = "str" THEN "allowed_str_values"
                         ELSE "allowed_values", <<>>)) = 0
        THEN None
        ELSE Some(get(meta, IF input_type = "str" THEN "allowed_str_values"
                            ELSE "allowed_values", <<>>))]

DynamicInput(nodes, input_id) ==
    dynamic_input(input_id, metadata_of(nodes, input_id),
                  IF get(metadata_of(nodes, input_id), "operation", "dynamic_input_num")
                     = "dynamic_input_str"
                  THEN "str" ELSE "num")

\* _load_model_info after node_count and dynamic_input_ids were read
loaded(node_count, p, schema) ==
    IF p.out.kind = "raise"
    THEN [p EXCEPT !.calls = <<Call("pricing_node_count", <<>>, node_count)>> \o p.calls]
    ELSE [p EXCEPT
            !.calls = <<Call("pricing_node_count", <<>>, node_count)>> \o p.calls,
            !.out = IF schema.exists /\ \E i \in 1..Len(schema.nodes) :
                                           "id" \notin DOMAIN schema.nodes[i]
                    THEN Raise("KeyError", <<Part("id", {}, 0)>>)
                    ELSE Return([node_count |-> node_count,
                                 dynamic_inputs |->
                                   [i \in 1..Len(p.out.value) |->
                                      DynamicInput(IF schema.exists THEN schema.nodes
                                                   ELSE <<>>, p.out.value[i])]])]

_load_model_info(cache, engine, schema) ==
    loaded(pricing_node_count(engine), dynamic_input_ids(cache, engine), schema)

\* self._model_info = <m>, unless m raised
fill_info(info, m) ==
    [info |-> IF m.out.kind = "raise" THEN info ELSE Some(m.out.value),
     cache |-> m.cache, calls |-> m.calls, out |-> m.out]

\* the property: fills self._model_info on the first read that succeeds
model_info(info, cache, engine, schema) ==
    IF ~info.some
    THEN fill_info(info, _load_model_info(cache, engine, schema))
    ELSE [info |-> info, cache |-> cache, calls |-> <<>>, out |-> Return(info.val)]

\* the f-string of __repr__
format_repr(m) ==
    IF m.out.kind = "raise" THEN m
    ELSE [m EXCEPT !.out =
            Return("PricingEngine(nodes=" \o ToString(m.out.value.node_count)
                   \o ", inputs=["
                   \o join(", ", [i \in 1..Len(m.out.value.dynamic_inputs) |->
                                    m.out.value.dynamic_inputs[i].id])
                   \o "])")]

__repr__(info, cache, engine, schema) ==
    format_repr(model_info(info, cache, engine, schema))

(***************************************************************************)
(* PricingEngine.set_input and PricingEngine.calculate                     *)
(***************************************************************************)
\* pricing_set_dyn_input(node_id, value)
pricing_set_dyn_input(engine, values, node_id, val, fault) ==
    IF fault # 0 THEN [ret |-> fault, values |-> values]
    ELSE IF decode(node_id) \notin Range(engine.ids)
    THEN [ret |-> NotFoundCode, values |-> values]
    ELSE [ret |-> 0, values |-> [values EXCEPT ![decode(node_id)] = val]]

\* pricing_calculate(out)
pricing_calculate(engine, values, fault) ==
    IF fault # 0 THEN [ret |-> fault, result |-> PyFloat(0)]
    ELSE [ret |-> 0,
          result |-> PyFloat(EngineEval([i \in 1..Len(engine.ids) |->
                                           values[engine.ids[i]]]))]

\* mutant of input_set: the not-found sentinel is not told from other codes
input_set_any_fault(node_id, val, r) ==
    [values |-> r.values,
     calls |-> <<Call("pricing_set_dyn_input", <<encode(node_id), float(val)>>, r.ret)>>,
     out |-> IF r.ret # 0
             THEN Raise("RuntimeError",
                        <<Part("Failed to set input ", {node_id}, 0),
                          Part(": error code ", {}, r.ret)>>)
             ELSE Return(<<>>)]

\* the translation of the set primitive's answer r
input_set(node_id, val, r) ==
    [values |-> r.values,
     calls |-> <<Call("pricing_set_dyn_input", <<encode(node_id), float(val)>>, r.ret)>>,
     out |-> IF r.ret = NotFoundCode
             THEN Raise("ValueError", <<Part("Node not found: ", {node_id}, 0)>>)
             ELSE IF r.ret # 0
             THEN Raise("RuntimeError",
                        <<Part("Failed to set input ", {node_id}, 0),
                          Part(": error code ", {}, r.ret)>>)
             ELSE Return(<<>>)]

set_input(engine, values, node_id, val, fault) ==
    input_set(node_id, val,
              pricing_set_dyn_input(engine, values, encode(node_id), float(val), fault))

\* for node_id, value in inputs.items(): self.set_input(node_id, value)
\* faults[i] is the fault, if any, of the i-th ABI call of the invocation;
\* set_next continues the loop after one set_input ended as s
RECURSIVE set_all(_, _, _, _, _)
RECURSIVE set_next(_, _, _, _, _)
set_all(engine, values, inputs, faults, done) ==
    IF Len(inputs) = 0
    THEN [values |-> values, calls |-> done, out |-> Return(<<>>)]
    ELSE set_next(engine, set_input(engine, values, inputs[1].k, inputs[1].v,
                                    faults[Len(done) + 1]),
                  inputs, faults, done)

\* mutant of set_next: a set_input that raised does not end the loop
set_next_lenient(engine, s, inputs, faults, done) ==
    set_all(engine, s.values, Tail(inputs), faults, done \o s.calls)

set_next(engine, s, inputs, faults, done) ==
    IF s.out.kind = "raise"
    THEN [s EXCEPT !.calls = done \o s.calls]
    ELSE set_all(engine, s.values, Tail(inputs), faults, done \o s.calls)

\* the translation of the calculate primitive's answer r
calculated(s, r) ==
    [s EXCEPT !.calls = Append(s.calls, Call("pricing_calculate", <<>>, r.ret)),
              !.out = IF r.ret # 0
                      THEN Raise("RuntimeError",
                                 <<Part("Calculation failed with error code: ", {}, r.ret)>>)
                      ELSE Return(r.result)]

\* calculate after its loop of set_input ended as s
inputs_set(engine, s, fault) ==
    IF s.out.kind = "raise" THEN s
    ELSE calculated(s, pricing_calculate(engine, s.values, fault))

\* mutant of calculate: the primitive is invoked without the inputs being set
calculate_unset(engine, values, inputs, faults) ==
    inputs_set(engine, [values |-> values, calls |-> <<>>, out |-> Return(<<>>)],
               faults[Len(inputs) + 1])

\* mutant of calculate: the inputs not supplied are reset before the loop
calculate_reset(engine, values, inputs, faults) ==
    inputs_set(engine,
               set_all(engine, [id \in DOMAIN values |-> PyFloat(0)], inputs, faults, <<>>),
               faults[Len(inputs) + 1])

\* a loop of set_input that raised, with the engine's values put back
rolled_back(values, s) ==
    IF s.out.kind = "raise" THEN [s EXCEPT !.values = values] ELSE s

\* mutant of calculate: a set_input that raises undoes the inputs already set
calculate_rollback(engine, values, inputs, faults) ==
    inputs_set(engine, rolled_back(values, set_all(engine, values, inputs, faults, <<>>)),
               faults[Len(inputs) + 1])

calculate(engine, values, inputs, faults) ==
    inputs_set(engine, set_all(engine, values, inputs, faults, <<>>),
               faults[Len(inputs) + 1])

(***************************************************************************)
(* What callers pass.                                                      *)
(***************************************************************************)
\* the orders in which distinct identifiers can be inserted into a dict
KeyOrders ==
    {ks \in UNION {[1..n -> IdPool] : n \in 0..Cardinality(IdPool)} :
        \A i, j \in 1..Len(ks) : ks[i] = ks[j] => i = j}

\* the dicts with values in V
Dicts(V) ==
    UNION { {[i \in 1..Len(ks) |-> [k |-> ks[i], v |-> vs[i]]] : vs \in [1..Len(ks) -> V]} :
            ks \in KeyOrders }

SeqsUpTo(S, n) == UNION {[1..m -> S] : m \in 0..n}

\* Mapping[str, Sequence[float]]
BatchRequests == Dicts(SeqsUpTo(Values, MaxBatch))

(***************************************************************************)
(* The facade's operations.                                                *)
(***************************************************************************)
\* the return codes of the enumerate primitive among the calls of an operation
EnumRets(calls) ==
    LET IsEnum(c) == c.fn = "pricing_get_dynamic_inputs"
    IN  [i \in 1..Len(SelectSeq(calls, IsEnum)) |-> SelectSeq(calls, IsEnum)[i].ret]

\* cold: the identifier cache was unset when the operation began
Record(op, fault, calls, out) ==
    [op |-> op, fault |-> fault, cold |-> ~_dynamic_input_ids.some,
     calls |-> calls, out |-> out]

FreshValues(engine) == [id \in Range(engine.ids) |-> PyFloat(0)]

\* main() before it runs; its locals: dynamic_input_ids, batch_size (which
\* is small_batch too), the loop index i, python_results, results, matches
NotStarted == [pc |-> "idle", dynamic_input_ids |-> <<>>, batch_size |-> 0, i |-> 0,
               python_results |-> <<>>, results |-> <<>>, matches |-> FALSE]

\* PricingEngine.__init__
Init ==
    /\ lib \in Engines
    /\ model_json \in SchemaFiles
    /\ _model_info = None
    /\ _dynamic_input_ids = None
    /\ inputValues = FreshValues(lib)
    /\ enumLog = <<>>
    /\ request \in BatchRequests
    /\ last = [op |-> "__init__", fault |-> 0, cold |-> TRUE,
               calls |-> <<>>, out |-> Return(<<>>)]
    /\ main = NotStarted
    /\ threads = <<>>
    /\ stubs = <<>>
    /\ output_file = None

\* the facade after an operation that ended as r: the cache it assigned, the
\* calls it made and its outcome
Ran(op, fault, r) ==
    /\ Len(enumLog) + Len(EnumRets(r.calls)) <= MaxCalls
    /\ _dynamic_input_ids' = r.cache
    /\ enumLog' = enumLog \o EnumRets(r.calls)
    /\ last' = Record(op, fault, r.calls, r.out)

\* engine.dynamic_input_ids
DynamicInputIds ==
    /\ Ran("dynamic_input_ids", 0, dynamic_input_ids(_dynamic_input_ids, lib))
    /\ UNCHANGED <<lib, model_json, _model_info, inputValues, request, main, elsewhere>>

\* an operation that reads model_info and ended as m
RanInfo(op, m) ==
    /\ Ran(op, 0, m)
    /\ _model_info' = m.info

\* engine.model_info
ModelInfo ==
    /\ RanInfo("model_info", model_info(_model_info, _dynamic_input_ids, lib, model_json))
    /\ UNCHANGED <<lib, model_json, inputValues, request, main, elsewhere>>

\* repr(engine)
Repr ==
    /\ RanInfo("__repr__", __repr__(_model_info, _dynamic_input_ids, lib, model_json))
    /\ UNCHANGED <<lib, model_json, inputValues, request, main, elsewhere>>

\* engine.calculate_batch(request)
CalculateBatch ==
    /\ \E fault \in FaultCodes :
          Ran("calculate_batch", fault,
              calculate_batch(_dynamic_input_ids, lib, request, fault))
    /\ UNCHANGED <<lib, model_json, _model_info, inputValues, request, main, elsewhere>>

Next == DynamicInputIds \/ ModelInfo \/ Repr \/ CalculateBatch

Spec == Init /\ [][Next]_vars

(***************************************************************************)
(* main() of examples/python_batch_ffi.py: it evaluates every row of       *)
(* input_data with calculate, then all rows with one calculate_batch, and  *)
(* compares.  input_data is the variable request.  An exception ends it.   *)
(***************************************************************************)
InitMain ==
    /\ lib \in Engines
    /\ model_json = NoSchema
    /\ _model_info = None
    /\ _dynamic_input_ids = None
    /\ inputValues = FreshValues(lib)
    /\ enumLog = <<>>
    /\ request = <<>>
    /\ last = [op |-> "__init__", fault |-> 0, cold |-> TRUE,
               calls |-> <<>>, out |-> Return(<<>>)]
    /\ main = [NotStarted EXCEPT !.pc = "enumerate"]
    /\ threads = <<>>
    /\ stubs = <<>>
    /\ output_file = None

\* main() after the facade operation of one of its lines ended as out
MainAfter(out, then) ==
    main' = IF out.kind = "raise" THEN [main EXCEPT !.pc = "crashed"] ELSE then

\* dynamic_input_ids = engine.dynamic_input_ids
MainEnumerated(r) ==
    /\ Ran("dynamic_input_ids", 0, r)
    /\ MainAfter(r.out, [main EXCEPT !.pc = "prepare", !.dynamic_input_ids = r.out.value])

MainEnumerate ==
    /\ main.pc = "enumerate"
    /\ MainEnumerated(dynamic_input_ids(_dynamic_input_ids, lib))
    /\ UNCHANGED <<lib, model_json, _model_info, inputValues, request, elsewhere>>

\* input_data = {input_id: [random ... for _ in range(batch_size)] for input_id in ...}
MainPrepare ==
    /\ main.pc = "prepare"
    /\ \E batch_size \in 0..MaxBatch :
         \E columns \in [1..Len(main.dynamic_input_ids) -> [1..batch_size -> Values]] :
            /\ request' = [i \in 1..Len(main.dynamic_input_ids) |->
                             [k |-> main.dynamic_input_ids[i], v |-> columns[i]]]
            /\ main' = [main EXCEPT !.pc = "loop", !.batch_size = batch_size]
    /\ UNCHANGED <<lib, model_json, _dynamic_input_ids, _model_info, inputValues,
                   enumLog, last, elsewhere>>

\* kwargs = {input_id: input_data[input_id][i] for input_id in dynamic_input_ids}
kwargs_of(input_data, dynamic_input_ids_, i) ==
    [j \in 1..Len(dynamic_input_ids_) |->
       [k |-> dynamic_input_ids_[j], v |-> getitem(input_data, dynamic_input_ids_[j])[i + 1]]]

\* result = engine.calculate(**kwargs); python_results.append(result)
MainCalculated(faults, r) ==
    /\ inputValues' = r.values
    /\ last' = Record("calculate", faults, r.calls, r.out)
    /\ MainAfter(r.out, [main EXCEPT !.i = main.i + 1,
                                     !.python_results = Append(main.python_results,
                                                               r.out.value)])

MainLoop ==
    /\ main.pc = "loop"
    /\ main.i < main.batch_size
    /\ \E faults \in [1..(Len(main.dynamic_input_ids) + 1) -> FaultCodes] :
          MainCalculated(faults,
                         calculate(lib, inputValues,
                                   kwargs_of(request, main.dynamic_input_ids, main.i),
                                   faults))
    /\ UNCHANGED <<lib, model_json, _dynamic_input_ids, _model_info, enumLog, request, elsewhere>>

\* results = engine.calculate_batch(input_data)
MainBatched(fault, r) ==
    /\ Ran("calculate_batch", fault, r)
    /\ MainAfter(r.out, [main EXCEPT !.pc = "verify", !.results = r.out.value])

MainBatch ==
    /\ main.pc = "loop"
    /\ main.i = main.batch_size
    /\ \E fault \in FaultCodes :
          MainBatched(fault, calculate_batch(_dynamic_input_ids, lib, request, fault))
    /\ UNCHANGED <<lib, model_json, _model_info, inputValues, request, elsewhere>>

\* abs(python_results[i] - batch_subset[i]) < 1e-9, on doubles with integer values
close(x, y) == x.v - y.v = 0

\* matches = all(... for i in range(small_batch)), over results[:small_batch]
MainVerify ==
    /\ main.pc = "verify"
    /\ main' = IF Len(main.results) < main.batch_size
               THEN [main EXCEPT !.pc = "crashed"]
               ELSE [main EXCEPT !.pc = "done",
                                 !.matches = \A i \in 1..main.batch_size :
                                                close(main.python_results[i],
                                                      main.results[i])]
    /\ UNCHANGED <<lib, model_json, _dynamic_input_ids, _model_info, inputValues,
                   enumLog, request, last, elsewhere>>

NextMain == MainEnumerate \/ MainPrepare \/ MainLoop \/ MainBatch \/ MainVerify

SpecMain == InitMain /\ [][NextMain]_vars

(***************************************************************************)
(* Reading the record of the last operation.                               *)
(***************************************************************************)
BatchRan == last.op = "calculate_batch"

\* the identifiers dynamic_input_ids() returned to the operation
IdsKnown == _dynamic_input_ids.some
Ids == _dynamic_input_ids.val

\* the calls of the last operation to one primitive
CallsTo(fn) == {i \in 1..Len(last.calls) : last.calls[i].fn = fn}
BatchCalled == CallsTo("pricing_calculate_batch") # {}
BatchCall == last.calls[CHOOSE i \in CallsTo("pricing_calculate_batch") : TRUE]

Raised(exc) == last.out.kind = "raise" /\ last.out.exc = exc

\* the identifiers a message names under one heading
Named(msg, text) == UNION {msg[i].ids : i \in {j \in 1..Len(msg) : msg[j].text = text}}

KeysMismatch == IdsKnown /\ keys(request) # Range(Ids)

LengthsDiffer ==
    /\ IdsKnown
    /\ keys(request) = Range(Ids)
    /\ \E i, j \in 1..Len(request) : Len(request[i].v) # Len(request[j].v)

\* the last operation was a calculate_batch that raised from one of its two
\* checks made before the batch primitive is called
PreCheckFailed ==
    /\ BatchRan
    /\ Raised("ValueError")
    /\ last.out.msg[1].text \in {"Missing inputs: ", "Unknown inputs: ",
                                 "All input sequences must have the same length"}

(***************************************************************************)
(* C1: a calculate_batch call whose mapping's key set differs from the set *)
(* of dynamic_input_ids() raises the validation error (ValueError), and    *)
(* its one message names as missing exactly the identifiers that are not   *)
(* keys and as unexpected exactly the keys that are not identifiers; when  *)
(* both sets are non-empty the message names both.                         *)
(***************************************************************************)
C1_KeyMismatchMessage ==
    (BatchRan /\ KeysMismatch) =>
        /\ Raised("ValueError")
        /\ \A i \in 1..Len(last.out.msg) :
              last.out.msg[i].text \in {"Missing inputs: ", "Unknown inputs: "}
        /\ Named(last.out.msg, "Missing inputs: ") = Range(Ids) \ keys(request)
        /\ Named(last.out.msg, "Unknown inputs: ") = keys(request) \ Range(Ids)
        /\ Len(last.out.msg) = (IF Range(Ids) \ keys(request) # {} THEN 1 ELSE 0)
                               + (IF keys(request) \ Range(Ids) # {} THEN 1 ELSE 0)

C1_Witness ==
    /\ BatchRan /\ KeysMismatch /\ Raised("ValueError")
    /\ Range(Ids) \ keys(request) = {"a"}
    /\ keys(request) \ Range(Ids) = {"b"}
    /\ Len(last.out.msg) = 2

(***************************************************************************)
(* C2 as claimed: when calculate_batch raises the validation error for a   *)
(* key-set mismatch or for unequal lengths, that call has invoked no       *)
(* engine primitive at all.                                                *)
(***************************************************************************)
C2_NoNativeCall == PreCheckFailed => Len(last.calls) = 0

(***************************************************************************)
(* C2 amended: when calculate_batch raises the validation error for a      *)
(* key-set mismatch or for unequal lengths, that call has invoked no       *)
(* evaluating primitive; the only call it has made across the ABI is the   *)
(* one lazy invocation of the enumerate primitive, and only when the       *)
(* identifier cache was unset as the call began.                           *)
(***************************************************************************)
C2_OnlyLazyEnumerate ==
    PreCheckFailed =>
        /\ \A i \in 1..Len(last.calls) : last.calls[i].fn = "pricing_get_dynamic_inputs"
        /\ Len(last.calls) = (IF last.cold THEN 1 ELSE 0)

C2_Witness == PreCheckFailed /\ LengthsDiffer /\ last.cold /\ Len(last.calls) = 1

(***************************************************************************)
(* C3: a calculate_batch call whose key set equals dynamic_input_ids() but *)
(* whose sequences do not all have one length raises the validation error, *)
(* whether the first sequence in identifier order or a later one differs.  *)
(***************************************************************************)
C3_UnequalLengthsRaise ==
    (BatchRan /\ LengthsDiffer) =>
        /\ Raised("ValueError")
        /\ last.out.msg[1].text = "All input sequences must have the same length"

C3_Witness ==
    /\ BatchRan /\ LengthsDiffer /\ Raised("ValueError")
    /\ Len(getitem(request, Ids[1])) < Len(getitem(request, Ids[2]))

(***************************************************************************)
(* C4: the flat buffer handed to the batch primitive has length B*K, its   *)
(* element at position r*K + k is the r-th value of the sequence of the    *)
(* k-th identifier of dynamic_input_ids(), as a double, and num_inputs is  *)
(* passed as K and batch_size as B.                                        *)
(***************************************************************************)
C4_RowMajorBuffer ==
    (BatchRan /\ BatchCalled) =>
        LET flat == BatchCall.args[1]
            K == Len(Ids)
            B == Len(getitem(request, Ids[1]))
        IN  /\ Len(flat) = B * K
            /\ \A r \in 0..(B - 1), k \in 0..(K - 1) :
                  /\ flat[r * K + k + 1].t = "float"
                  /\ NumEq(flat[r * K + k + 1], getitem(request, Ids[k + 1])[r + 1])
            /\ BatchCall.args[2] = K
            /\ BatchCall.args[3] = B

C4_Witness ==
    /\ BatchRan /\ BatchCalled /\ Len(Ids) = 2
    /\ getitem(request, Ids[1]) = <<PyInt(1), PyFloat(2)>>
    /\ getitem(request, Ids[2]) = <<PyFloat(2), PyFloat(2)>>
    /\ BatchCall.args[1] = <<PyFloat(1), PyFloat(2), PyFloat(2), PyFloat(2)>>

(***************************************************************************)
(* C5: a mapping with the same sequences under the same identifiers,       *)
(* built with its keys inserted in any other order, makes calculate_batch  *)
(* hand the engine the same flat buffer and end in the same result.        *)
(***************************************************************************)
\* the dicts with the items of d, in every insertion order
Reorderings(d) ==
    {[i \in 1..Len(d) |-> d[perm[i]]] : perm \in Permutations(1..Len(d))}

\* the cache as the last operation found it
CacheBefore == IF last.cold THEN None ELSE _dynamic_input_ids

\* the buffer an operation handed to the batch primitive
FlatOf(calls) ==
    IF \E i \in 1..Len(calls) : calls[i].fn = "pricing_calculate_batch"
    THEN <<calls[CHOOSE i \in 1..Len(calls) :
                   calls[i].fn = "pricing_calculate_batch"].args[1]>>
    ELSE <<>>

SameEnd(x, y) ==
    /\ x.kind = y.kind
    /\ x.exc = y.exc
    /\ Len(x.value) = Len(y.value)
    /\ \A i \in 1..Len(x.value) : x.value[i] = y.value[i]

C5_InsertionOrderIrrelevant ==
    BatchRan =>
        \A d \in Reorderings(request) :
            /\ FlatOf(calculate_batch(CacheBefore, lib, d, last.fault).calls)
               = FlatOf(last.calls)
            /\ SameEnd(calculate_batch(CacheBefore, lib, d, last.fault).out, last.out)

C5_Witness ==
    /\ BatchRan /\ BatchCalled /\ last.out.kind = "return"
    /\ Len(request) = 2
    /\ request[1].k = Ids[2]
    /\ request[1].v # request[2].v
    /\ Len(last.out.value) = 2

(***************************************************************************)
(* C6: calculate_batch translates the batch primitive's return code: 0     *)
(* yields the output sequence of exactly batch_size values, the mismatch   *)
(* sentinel -1 the validation error (ValueError), every other nonzero code *)
(* the engine fault (RuntimeError) whose message carries the raw code; no  *)
(* result sequence is returned when the code is nonzero.                   *)
(***************************************************************************)
C6_ReturnCodeTranslation ==
    (BatchRan /\ BatchCalled) =>
        /\ BatchCall.ret = 0 =>
              /\ last.out.kind = "return"
              /\ Len(last.out.value) = BatchCall.args[3]
        /\ BatchCall.ret = MismatchCode => Raised("ValueError")
        /\ BatchCall.ret \notin {0, MismatchCode} =>
              /\ Raised("RuntimeError")
              /\ \E i \in 1..Len(last.out.msg) : last.out.msg[i].code = BatchCall.ret
        /\ BatchCall.ret # 0 => last.out.kind = "raise" /\ last.out.value = <<>>

C6_Witness ==
    /\ BatchRan /\ BatchCalled /\ BatchCall.ret = 5
    /\ Raised("RuntimeError")
    /\ last.out.msg[1].code = 5

(***************************************************************************)
(* C8 as claimed: over the lifetime of one facade the enumerate primitive  *)
(* is invoked once.                                                        *)
(***************************************************************************)
C8_EnumeratedOnce == Len(enumLog) <= 1

(***************************************************************************)
(* C8 amended: the enumerate primitive is not invoked at construction; it  *)
(* is invoked only by an operation that needs the identifiers while the    *)
(* cache is unset, once per such operation, and never again after an       *)
(* invocation that succeeded: from then on the cache is never reassigned   *)
(* and every read of dynamic_input_ids returns the cached sequence.  (An   *)
(* invocation that fails caches nothing, so the next operation repeats it.)*)
(***************************************************************************)
C8_Step ==
    /\ enumLog' # enumLog =>
          /\ ~_dynamic_input_ids.some
          /\ Len(enumLog') = Len(enumLog) + 1
          /\ last'.op \in {"dynamic_input_ids", "model_info", "__repr__", "calculate_batch"}
    /\ _dynamic_input_ids.some =>
          /\ _dynamic_input_ids' = _dynamic_input_ids
          /\ enumLog' = enumLog
          /\ last'.op = "dynamic_input_ids" => last'.out = Return(_dynamic_input_ids.val)

C8_EnumeratedLazilyUntilSuccess ==
    /\ enumLog = <<>> /\ ~_dynamic_input_ids.some
    /\ [][C8_Step]_vars
    /\ [](\A i \in 1..(Len(enumLog) - 1) : enumLog[i] < 0)

C8_Witness ==
    /\ last.op = "dynamic_input_ids" /\ ~last.cold /\ last.calls = <<>>
    /\ Len(enumLog) = 1 /\ enumLog[1] = 2
    /\ last.out.kind = "return" /\ last.out.value = <<"b", "a">>

(***************************************************************************)
(* C9: whenever the enumerate primitive returns a negative value (as it    *)
(* does for an engine with more dynamic inputs than the max_count buffers) *)
(* the operation fails with the enumeration error (RuntimeError), no       *)
(* truncated list is returned, and the identifier cache is left unset.     *)
(***************************************************************************)
EnumFailed ==
    \E i \in CallsTo("pricing_get_dynamic_inputs") : last.calls[i].ret < 0

C9_NegativeCountRaises ==
    /\ EnumFailed =>
          /\ Raised("RuntimeError")
          /\ last.out.msg[1].text = "Failed to get dynamic inputs from library"
          /\ ~_dynamic_input_ids.some
          /\ ~_model_info.some
    /\ Len(lib.ids) > max_inputs => ~_dynamic_input_ids.some /\ ~_model_info.some

C9_Witness ==
    /\ last.op = "dynamic_input_ids" /\ EnumFailed /\ Raised("RuntimeError")
    /\ Len(lib.ids) = max_inputs + 1
    /\ Len(enumLog) = 2

(***************************************************************************)
(* C10: when the enumerate primitive succeeds with count n, the facade     *)
(* holds and returns exactly the n identifiers the engine wrote into the   *)
(* first n buffers, in that order, none dropped and none duplicated.       *)
(***************************************************************************)
C10_IdsAsReported ==
    /\ _dynamic_input_ids.some =>
          /\ Ids = lib.ids
          /\ Range(Ids) = Range(lib.ids)
          /\ Cardinality(Range(Ids)) = Len(Ids)
          /\ Len(enumLog) >= 1 /\ enumLog[Len(enumLog)] = Len(Ids)
    /\ \A i \in CallsTo("pricing_get_dynamic_inputs") :
          last.calls[i].ret >= 0 =>
              /\ _dynamic_input_ids.some
              /\ Len(Ids) = last.calls[i].ret
    /\ (last.op = "dynamic_input_ids" /\ last.out.kind = "return") =>
          last.out.value = lib.ids

C10_Witness ==
    /\ last.op = "dynamic_input_ids" /\ last.cold /\ last.out.kind = "return"
    /\ last.calls[1].ret = 2
    /\ last.out.value = <<"b", "a">>

(***************************************************************************)
(* C7: for every full assignment of values to the dynamic inputs, the      *)
(* one-row batch built from it makes calculate_batch return a one-element  *)
(* sequence whose element equals what scalar calculate returned for the    *)
(* same named inputs on the freshly initialised handle.  (Stated of the    *)
(* runs in which both calls return: main() with batch_size 1.)             *)
(***************************************************************************)
C7_OneRowBatchEqualsScalar ==
    (main.pc \in {"verify", "done"} /\ main.batch_size = 1) =>
        /\ Len(main.python_results) = 1
        /\ Len(main.results) = 1
        /\ main.results[1].t = "float"
        /\ NumEq(main.results[1], main.python_results[1])
        /\ main.pc = "done" => main.matches

C7_Witness ==
    /\ main.pc = "done" /\ main.batch_size = 1 /\ main.matches
    /\ main.dynamic_input_ids = <<"b", "a">>
    /\ request = <<[k |-> "b", v |-> <<PyInt(1)>>], [k |-> "a", v |-> <<PyFloat(2)>>]>>
    /\ main.python_results = <<PyFloat(5)>>
    /\ main.results = <<PyFloat(5)>>

(***************************************************************************)
(* The scalar path of one facade used by one thread of control: set_input  *)
(* and calculate in any order, any of their ABI calls possibly faulting.   *)
(***************************************************************************)
\* an invocation ends at its first ABI call that returns nonzero: the plans
\* in which the k-th of n calls answers code c and the others answer 0
FaultPlans(n) == {[i \in 1..n |-> IF i = k THEN c ELSE 0] : k \in 1..n, c \in FaultCodes}

\* **inputs: keyword arguments, a dict in the order the caller wrote them
Kwargs == Dicts(Values)

InitScalar ==
    /\ lib \in Engines
    /\ model_json = NoSchema
    /\ _model_info = None
    /\ _dynamic_input_ids = None
    /\ inputValues = FreshValues(lib)
    /\ enumLog = <<>>
    /\ request = <<>>
    /\ last = [op |-> "__init__", fault |-> 0, cold |-> TRUE,
               calls |-> <<>>, out |-> Return(<<>>)]
    /\ main = NotStarted
    /\ threads = <<>>
    /\ stubs = <<>>
    /\ output_file = None

\* the facade and the engine after a scalar operation on kwargs ended as r
ScalarRan(op, fault, kwargs, r) ==
    /\ inputValues' = r.values
    /\ request' = kwargs
    /\ last' = Record(op, fault, r.calls, r.out)

\* engine.set_input(node_id, val)
SetInput ==
    /\ \E node_id \in IdPool, val \in Values, fault \in FaultCodes :
          ScalarRan("set_input", fault, <<[k |-> node_id, v |-> val]>>,
                    set_input(lib, inputValues, node_id, val, fault))
    /\ UNCHANGED <<lib, model_json, _dynamic_input_ids, _model_info, enumLog, main,
                   elsewhere>>

\* engine.calculate(**kwargs)
Calculate ==
    /\ \E kwargs \in Kwargs :
         \E faults \in FaultPlans(Len(kwargs) + 1) :
            ScalarRan("calculate", faults, kwargs,
                      calculate(lib, inputValues, kwargs, faults))
    /\ UNCHANGED <<lib, model_json, _dynamic_input_ids, _model_info, enumLog, main,
                   elsewhere>>

NextScalar == SetInput \/ Calculate

SpecScalar == InitScalar /\ [][NextScalar]_vars

(***************************************************************************)
(* Reading the record of a scalar operation.                               *)
(***************************************************************************)
\* the calls of the last operation to the set primitive, and to calculate
SetCalls == CallsTo("pricing_set_dyn_input")
CalcCalls == CallsTo("pricing_calculate")

\* the supplied inputs whose identifier the engine does not have
Unknown == {i \in 1..Len(request) : request[i].k \notin Range(lib.ids)}

(***************************************************************************)
(* C11: set_input(id, value) invokes the set primitive exactly once, with  *)
(* the identifier's bytes and the value as a double, and makes no other    *)
(* call (no retry); return code 0 makes it return normally, the not-found  *)
(* sentinel -3 raises NodeNotFoundError (ValueError) naming the            *)
(* identifier, every other nonzero code raises EngineFault (RuntimeError)  *)
(* whose message carries the raw code.                                     *)
(***************************************************************************)
C11_SetInputCodeMapping ==
    last.op = "set_input" =>
        /\ Len(last.calls) = 1
        /\ last.calls[1].fn = "pricing_set_dyn_input"
        /\ last.calls[1].args = <<encode(request[1].k), float(request[1].v)>>
        /\ last.calls[1].ret = 0 => last.out = Return(<<>>)
        /\ last.calls[1].ret = NotFoundCode =>
              /\ Raised("ValueError")
              /\ Named(last.out.msg, "Node not found: ") = {request[1].k}
        /\ last.calls[1].ret \notin {0, NotFoundCode} =>
              /\ Raised("RuntimeError")
              /\ \E i \in 1..Len(last.out.msg) : last.out.msg[i].code = last.calls[1].ret
              /\ \E i \in 1..Len(last.out.msg) : last.out.msg[i].ids = {request[1].k}

C11_Witness ==
    /\ last.op = "set_input" /\ request[1].k = "b" /\ lib.ids = <<"a">>
    /\ last.calls[1].ret = NotFoundCode
    /\ Raised("ValueError")

(***************************************************************************)
(* C12: calculate calls set_input for the supplied inputs in the order the *)
(* caller supplied them, stopping at the first that raises; all of them    *)
(* are set when none raises.  The calculate primitive is invoked at most   *)
(* once, as the last call, only after every supplied input was set with    *)
(* code 0.  There is no pre-check: calculate never reads the identifier    *)
(* list, and an identifier unknown to the engine is found by the set       *)
(* primitive (code -3), which ends the call in NodeNotFoundError           *)
(* (ValueError) naming it, the calculate primitive not invoked.            *)
(***************************************************************************)
C12_SetInOrderThenCalculate ==
    last.op = "calculate" =>
        /\ SetCalls = 1..Cardinality(SetCalls)
        /\ Cardinality(SetCalls) <= Len(request)
        /\ \A i \in SetCalls :
              /\ last.calls[i].args = <<encode(request[i].k), float(request[i].v)>>
              /\ i < Cardinality(SetCalls) => last.calls[i].ret = 0
              /\ last.calls[i].ret = NotFoundCode =>
                    /\ Raised("ValueError")
                    /\ Named(last.out.msg, "Node not found: ") = {request[i].k}
              /\ last.calls[i].ret # 0 => last.out.kind = "raise" /\ CalcCalls = {}
        /\ (\A i \in SetCalls : last.calls[i].ret = 0) =>
              /\ Cardinality(SetCalls) = Len(request)
              /\ CalcCalls = {Len(request) + 1}
        /\ Len(last.calls) = Cardinality(SetCalls) + Cardinality(CalcCalls)
        /\ CallsTo("pricing_get_dynamic_inputs") = {}
        /\ ~_dynamic_input_ids.some
        /\ (Unknown # {} /\ \A j \in DOMAIN last.fault : last.fault[j] = 0) =>
              /\ Raised("ValueError")
              /\ \E i \in Unknown :
                    /\ \A j \in Unknown : i <= j
                    /\ Named(last.out.msg, "Node not found: ") = {request[i].k}
                    /\ Cardinality(SetCalls) = i
              /\ CalcCalls = {}

C12_Witness ==
    /\ last.op = "calculate" /\ lib.ids = <<"a">>
    /\ request = <<[k |-> "a", v |-> PyInt(1)], [k |-> "b", v |-> PyFloat(2)]>>
    /\ Len(last.calls) = 2
    /\ last.calls[1].ret = 0 /\ last.calls[2].ret = NotFoundCode
    /\ Raised("ValueError")
    /\ inputValues["a"] = PyFloat(1)

(***************************************************************************)
(* C13: calculate called with a strict subset of the dynamic inputs raises *)
(* no error of its own (it ends in an error only when one of its ABI calls *)
(* answers nonzero), it leaves the engine value of every identifier it was *)
(* not given unchanged, and its result is the evaluation of the supplied   *)
(* values together with, for each input not supplied, the value the engine *)
(* held before the call: the one most recently set on the handle.          *)
(***************************************************************************)
StrictSubset(kwargs) == keys(kwargs) \subseteq Range(lib.ids) /\ keys(kwargs) # Range(lib.ids)

C13_Step ==
    (last'.op = "calculate" /\ StrictSubset(request')) =>
        /\ \A id \in Range(lib.ids) \ keys(request') : inputValues'[id] = inputValues[id]
        /\ (\A i \in 1..Len(last'.calls) : last'.calls[i].ret = 0) =>
              /\ last'.out.kind = "return"
              /\ last'.out.value.t = "float"
              /\ last'.out.value.v =
                    EngineEval([i \in 1..Len(lib.ids) |->
                                  IF lib.ids[i] \in keys(request')
                                  THEN float(getitem(request', lib.ids[i]))
                                  ELSE inputValues[lib.ids[i]]])
        /\ last'.out.kind = "raise" =>
              \E i \in 1..Len(last'.calls) : last'.calls[i].ret # 0

C13_SubsetKeepsOtherInputs == [][C13_Step]_vars

C13_Witness ==
    /\ last.op = "calculate" /\ lib.ids = <<"b", "a">>
    /\ request = <<[k |-> "a", v |-> PyInt(1)]>>
    /\ inputValues["b"] = PyFloat(2)
    /\ last.out = Return(PyFloat(4))

(***************************************************************************)
(* C21: when calculate raises from set_input at the k-th supplied          *)
(* identifier (the engine does not have it, or the set primitive answers   *)
(* another nonzero code), the set primitive was called for the first k     *)
(* supplied inputs and for no other, the first k-1 supplied values are in  *)
(* the engine, every other input holds the value it held before the call,  *)
(* and a calculate that follows on the same handle and whose ABI calls all *)
(* succeed returns the evaluation of its own inputs together with those    *)
(* k-1 values and the older values of the rest.                            *)
(***************************************************************************)
\* the operation recorded as l is a calculate that raised from set_input
SetFailure(l) ==
    /\ l.op = "calculate"
    /\ l.out.kind = "raise"
    /\ Len(l.calls) >= 1
    /\ l.calls[Len(l.calls)].fn = "pricing_set_dyn_input"

\* the supplied inputs before the k-th that name id
WrittenBefore(kwargs, k, id) == {i \in 1..(k - 1) : kwargs[i].k = id}

\* the engine's values once the first k-1 inputs of kwargs are written over before
AfterWrites(before, kwargs, k) ==
    [id \in DOMAIN before |->
        IF WrittenBefore(kwargs, k, id) # {}
        THEN float(kwargs[CHOOSE i \in WrittenBefore(kwargs, k, id) : TRUE].v)
        ELSE before[id]]

C21_Step ==
    /\ SetFailure(last') =>
          /\ Len(last'.calls) <= Len(request')
          /\ \A i \in 1..Len(last'.calls) :
                /\ last'.calls[i].fn = "pricing_set_dyn_input"
                /\ last'.calls[i].args = <<encode(request'[i].k), float(request'[i].v)>>
                /\ last'.calls[i].ret # 0 <=> i = Len(last'.calls)
          /\ inputValues' = AfterWrites(inputValues, request', Len(last'.calls))
    /\ (/\ SetFailure(last)
        /\ last'.op = "calculate"
        /\ \A i \in 1..Len(last'.calls) : last'.calls[i].ret = 0) =>
          /\ inputValues = AfterWrites(inputValues, request, Len(last.calls))
          /\ last'.out =
                Return(PyFloat(EngineEval(
                    [i \in 1..Len(lib.ids) |->
                        IF lib.ids[i] \in keys(request')
                        THEN float(getitem(request', lib.ids[i]))
                        ELSE AfterWrites(inputValues, request, Len(last.calls))[lib.ids[i]]])))

C21_FailedCalculateKeepsWrites == [][C21_Step]_vars

\* a calculate that failed at its second input and changed the engine's values
C21_Witness ==
    /\ SetFailure(last) /\ lib.ids = <<"b", "a">>
    /\ request = <<[k |-> "a", v |-> PyFloat(2)], [k |-> "b", v |-> PyInt(1)]>>
    /\ Len(last.calls) = 2 /\ last.calls[2].ret = 5
    /\ Raised("RuntimeError")
    /\ inputValues = [a |-> PyFloat(2), b |-> PyFloat(0)]
    /\ inputValues # FreshValues(lib)

(***************************************************************************)
(* Two threads of control inside calculate on one facade.  engine.py takes *)
(* no lock in set_input or calculate, and ctypes releases the interpreter  *)
(* lock around every call into the library, so the threads' ABI calls      *)
(* happen in any order; one ABI call is taken as one step.                 *)
(***************************************************************************)
Threads == {"t1", "t2"}

\* calculate(**kwargs) with a value for every dynamic input of the engine
FullKwargs(engine) == {d \in Kwargs : keys(d) = Range(engine.ids)}

\* a thread that has entered calculate: i supplied inputs are set so far
Entered(kwargs) == [pc |-> "loop", inputs |-> kwargs, i |-> 0, calls |-> <<>>,
                    out |-> Return(<<>>)]

InitThreads ==
    /\ lib \in Engines
    /\ model_json = NoSchema
    /\ _model_info = None
    /\ _dynamic_input_ids = None
    /\ inputValues = FreshValues(lib)
    /\ enumLog = <<>>
    /\ request = <<>>
    /\ last = [op |-> "__init__", fault |-> 0, cold |-> TRUE,
               calls |-> <<>>, out |-> Return(<<>>)]
    /\ main = NotStarted
    /\ threads \in [Threads -> {Entered(kwargs) : kwargs \in FullKwargs(lib)}]
    /\ stubs = <<>>
    /\ output_file = None

\* thread t after one of its ABI calls ended as r, which leaves it at pc
ThreadRan(t, fault, r, pc, i) ==
    /\ inputValues' = r.values
    /\ threads' = [threads EXCEPT ![t] = [pc |-> IF r.out.kind = "raise" THEN "raised" ELSE pc,
                                           inputs |-> threads[t].inputs,
                                           i |-> i,
                                           calls |-> threads[t].calls \o r.calls,
                                           out |-> r.out]]
    /\ last' = Record("calculate", fault, threads[t].calls \o r.calls, r.out)

\* one turn of the loop of thread t: self.set_input(node_id, value)
ThreadSetInput(t) ==
    /\ threads[t].pc = "loop"
    /\ threads[t].i < Len(threads[t].inputs)
    /\ \E fault \in FaultCodes :
          ThreadRan(t, fault,
                    set_input(lib, inputValues,
                              threads[t].inputs[threads[t].i + 1].k,
                              threads[t].inputs[threads[t].i + 1].v, fault),
                    "loop", threads[t].i + 1)
    /\ UNCHANGED <<lib, model_json, _dynamic_input_ids, _model_info, enumLog, request,
                   main, stubs, output_file>>

\* thread t after its loop: self._lib.pricing_calculate(byref(result))
ThreadCalculate(t) ==
    /\ threads[t].pc = "loop"
    /\ threads[t].i = Len(threads[t].inputs)
    /\ \E fault \in FaultCodes :
          ThreadRan(t, fault,
                    calculated([values |-> inputValues, calls |-> <<>>,
                                out |-> Return(<<>>)],
                               pricing_calculate(lib, inputValues, fault)),
                    "done", threads[t].i)
    /\ UNCHANGED <<lib, model_json, _dynamic_input_ids, _model_info, enumLog, request,
                   main, stubs, output_file>>

NextThreads == \E t \in Threads : ThreadSetInput(t) \/ ThreadCalculate(t)

SpecThreads == InitThreads /\ [][NextThreads]_vars

(***************************************************************************)
(* C14 as claimed: when two threads call calculate concurrently on one     *)
(* facade with full input sets, the facade serializes them, so the result  *)
(* each invocation returns is the evaluation of exactly the inputs that    *)
(* invocation supplied.                                                    *)
(***************************************************************************)
\* the evaluation of the inputs thread t supplied
OwnEvaluation(t) ==
    EngineEval([i \in 1..Len(lib.ids) |-> float(getitem(threads[t].inputs, lib.ids[i]))])

C14_ResultOfOwnInputs ==
    \A t \in Threads :
        threads[t].pc = "done" => threads[t].out.value.v = OwnEvaluation(t)

(***************************************************************************)
(* C15: model_info() returns the engine's node count and one DynamicInput  *)
(* per identifier the engine reported, in the engine's order.  Each is     *)
(* joined by identifier to the schema node of that id: name and            *)
(* description from its metadata (the id and the empty text when it has    *)
(* none), string kind when its operation is dynamic_input_str and numeric  *)
(* otherwise, its non-empty allowed values.  An identifier with no schema  *)
(* node, or with no schema supplied, gets the empty metadata: name = id,   *)
(* empty description, numeric kind, no allowed values; that never raises:  *)
(* model_info raises only when the enumeration fails or the schema has a   *)
(* node without id.  Schema nodes the engine did not report do not appear. *)
(***************************************************************************)
\* the positions of the schema nodes that carry the identifier id
NodesOf(id) ==
    IF ~model_json.exists THEN {}
    ELSE {i \in 1..Len(model_json.nodes) :
            "id" \in DOMAIN model_json.nodes[i] /\ model_json.nodes[i]["id"] = id}

EmptyMetadata(id) ==
    [id |-> id, name |-> id, description |-> "", input_type |-> "num",
     allowed_values |-> None]

\* d carries what the schema node n says
JoinedTo(d, n) ==
    /\ d.name = (IF "metadata" \in DOMAIN n /\ "name" \in DOMAIN n.metadata
                 THEN n.metadata.name ELSE d.id)
    /\ d.description = (IF "metadata" \in DOMAIN n /\ "description" \in DOMAIN n.metadata
                        THEN n.metadata.description ELSE "")
    /\ d.input_type = (IF n.operation = "dynamic_input_str" THEN "str" ELSE "num")
    /\ d.input_type = "str" =>
          d.allowed_values = (IF "allowed_str_values" \in DOMAIN n
                                 /\ n.allowed_str_values # <<>>
                              THEN Some(n.allowed_str_values) ELSE None)
    /\ d.input_type = "num" =>
          d.allowed_values = (IF "allowed_values" \in DOMAIN n /\ n.allowed_values # <<>>
                              THEN Some(n.allowed_values) ELSE None)

SchemaUnreadable ==
    model_json.exists /\ \E i \in 1..Len(model_json.nodes) :
                            "id" \notin DOMAIN model_json.nodes[i]

C15_ModelInfoJoin ==
    last.op = "model_info" =>
        /\ last.out.kind = "return" =>
              /\ last.out.value.node_count = lib.nodes
              /\ Len(last.out.value.dynamic_inputs) = Len(lib.ids)
              /\ \A i \in 1..Len(lib.ids) :
                    /\ last.out.value.dynamic_inputs[i].id = lib.ids[i]
                    /\ NodesOf(lib.ids[i]) = {} =>
                          last.out.value.dynamic_inputs[i] = EmptyMetadata(lib.ids[i])
                    /\ \A j \in NodesOf(lib.ids[i]) :
                          JoinedTo(last.out.value.dynamic_inputs[i], model_json.nodes[j])
        /\ last.out.kind = "raise" => (EnumFailed \/ SchemaUnreadable)
        /\ (~SchemaUnreadable /\ Len(lib.ids) <= max_inputs) => last.out.kind = "return"

C15_Witness ==
    /\ last.op = "model_info" /\ last.out.kind = "return"
    /\ lib.ids = <<"b", "a">>
    /\ model_json.exists /\ model_json.nodes[1]["id"] = "a" /\ Len(model_json.nodes) = 2
    /\ last.out.value.dynamic_inputs[1] = EmptyMetadata("b")
    /\ last.out.value.dynamic_inputs[2].name = "Tier"
    /\ last.out.value.dynamic_inputs[2].allowed_values = Some(<<"gold", "silver">>)

(***************************************************************************)
(* codegen.py: the generator of typed bindings.  Text is a string; the     *)
(* characters of identifiers are examined one by one.                      *)
(***************************************************************************)
\* longest identifier handed to _sanitize_identifier
MaxName == 3
\* most nodes of a schema handed to the generator
MaxNodes == 2
\* most runs of the generator over one schema
MaxRuns == 2

\* s[i] of a Python str, i counted from 1
char(s, i) == SubSeq(s, i, i)

\* the character classes a-z A-Z, 0-9 of the pattern [^a-zA-Z0-9_]
AsciiLetters ==
    {"a", "b", "c", "d", "e", "f", "g", "h", "i", "j", "k", "l", "m",
     "n", "o", "p", "q", "r", "s", "t", "u", "v", "w", "x", "y", "z",
     "A", "B", "C", "D", "E", "F", "G", "H", "I", "J", "K", "L", "M",
     "N", "O", "P", "Q", "R", "S", "T", "U", "V", "W", "X", "Y", "Z"}
AsciiDigits == {"0", "1", "2", "3", "4", "5", "6", "7", "8", "9"}

\* c.isdigit(), for a character of the ASCII range
isdigit(c) == c \in AsciiDigits

\* re.sub(r'[^a-zA-Z0-9_]', '_', name)
RECURSIVE re_sub(_)
re_sub(name) ==
    IF name = "" THEN ""
    ELSE (IF char(name, 1) \in AsciiLetters \cup AsciiDigits \cup {"_"}
          THEN char(name, 1) ELSE "_")
         \o re_sub(SubSeq(name, 2, Len(name)))

\* if name and name[0].isdigit(): name = '_' + name
prefixed(name) ==
    IF name # "" /\ isdigit(char(name, 1)) THEN "_" \o name ELSE name

\* mutant of _sanitize_identifier: the leading digit is left as it is
sanitize_unprefixed(name) == re_sub(name)

_sanitize_identifier(name) == prefixed(re_sub(name))

(***************************************************************************)
(* _sanitize_identifier applied to node ids, and to its own results.       *)
(***************************************************************************)
\* the characters node ids are made of here: letters, a digit, the
\* underscore, and two characters outside the pattern's class
NameChars == {"a", "Z", "7", "_", "-", " "}

RECURSIVE NamesOfLen(_)
NamesOfLen(n) ==
    IF n = 0 THEN {""}
    ELSE {c \o rest : c \in NameChars, rest \in NamesOfLen(n - 1)}

Names == UNION {NamesOfLen(n) : n \in 0..MaxName}

InitSanitize ==
    /\ lib = [ids |-> <<>>, nodes |-> 0]
    /\ model_json = NoSchema
    /\ _model_info = None
    /\ _dynamic_input_ids = None
    /\ inputValues = FreshValues(lib)
    /\ enumLog = <<>>
    /\ request \in Names
    /\ last = [op |-> "__init__", fault |-> 0, cold |-> TRUE,
               calls |-> <<>>, out |-> Return(<<>>)]
    /\ main = NotStarted
    /\ threads = <<>>
    /\ stubs = <<>>
    /\ output_file = None

\* safe_id = _sanitize_identifier(node_id)
Sanitize ==
    /\ last.op = "__init__"
    /\ last' = Record("_sanitize_identifier", 0, <<>>, Return(_sanitize_identifier(request)))
    /\ UNCHANGED <<lib, model_json, _dynamic_input_ids, _model_info, inputValues, enumLog,
                   request, main, elsewhere>>

\* _sanitize_identifier(safe_id): the function applied to a result of its own
Resanitize ==
    /\ last.op = "_sanitize_identifier"
    /\ request' = last.out.value
    /\ last' = Record("_sanitize_identifier", 0, <<>>,
                      Return(_sanitize_identifier(last.out.value)))
    /\ UNCHANGED <<lib, model_json, _dynamic_input_ids, _model_info, inputValues, enumLog,
                   main, elsewhere>>

NextSanitize == Sanitize \/ Resanitize

SpecSanitize == InitSanitize /\ [][NextSanitize]_vars

(***************************************************************************)
(* C18: _sanitize_identifier rewrites every character outside             *)
(* [a-zA-Z0-9_] to '_' and keeps every other character in place; it puts   *)
(* one '_' in front exactly when the first character is a digit; the       *)
(* result of a non-empty name is a valid symbol (non-empty, only allowed   *)
(* characters, not starting with a digit); applied to its own result it    *)
(* returns that result unchanged.                                          *)
(***************************************************************************)
SymbolChars == AsciiLetters \cup AsciiDigits \cup {"_"}

ValidSymbol(s) ==
    /\ s # ""
    /\ \A i \in 1..Len(s) : char(s, i) \in SymbolChars
    /\ char(s, 1) \notin AsciiDigits

\* 1 when a marker is due for name, else 0
Marker(name) == IF name # "" /\ char(name, 1) \in AsciiDigits THEN 1 ELSE 0

C18_SanitizeIdentifier ==
    last.op = "_sanitize_identifier" =>
        /\ Len(last.out.value) = Len(request) + Marker(request)
        /\ Marker(request) = 1 => char(last.out.value, 1) = "_"
        /\ \A i \in 1..Len(request) :
              char(last.out.value, i + Marker(request)) =
                 (IF char(request, i) \in SymbolChars THEN char(request, i) ELSE "_")
        /\ request # "" => ValidSymbol(last.out.value)
        /\ _sanitize_identifier(last.out.value) = last.out.value
        /\ ValidSymbol(request) => last.out.value = request

C18_Witness ==
    /\ last.op = "_sanitize_identifier"
    /\ request = "7-a"
    /\ last.out.value = "_7_a"

(***************************************************************************)
(* generate_typed_stub and the two TypedDict generators.                   *)
(***************************************************************************)
\* str(v) of a JSON number
str(v) == IF v.t = "int" THEN ToString(v.v) ELSE ToString(v.v) \o ".0"

\* s.startswith(prefix)
startswith(s, prefix) == Len(s) >= Len(prefix) /\ SubSeq(s, 1, Len(prefix)) = prefix

\* [f'"{v}"' for v in allowed]
quoted(allowed) == [i \in 1..Len(allowed) |-> "\"" \o allowed[i] \o "\""]

\* [str(v) for v in allowed]
strs(allowed) == [i \in 1..Len(allowed) |-> str(allowed[i])]

\* f"Literal[{literal_values}]" when allowed is non-empty, else the plain type
literal_or(literal_values, plain) ==
    IF Len(literal_values) > 0 THEN "Literal[" \o join(", ", literal_values) \o "]"
    ELSE plain

\* mutant of type_hint: the allowed values are not looked at
type_hint_plain(node) ==
    IF get(node, "operation", "dynamic_input_num") = "dynamic_input_str"
    THEN "str" ELSE "float"

\* the type_hint _generate_inputs_typeddict chooses for a node
type_hint(node) ==
    IF get(node, "operation", "dynamic_input_num") = "dynamic_input_str"
    THEN literal_or(quoted(get(node, "allowed_str_values", <<>>)), "str")
    ELSE literal_or(strs(get(node, "allowed_values", <<>>)), "float")

\* node.get('metadata', {}).get('description', '')
description_of(node) == get(get(node, "metadata", <<>>), "description", "")

\* the docstring line under a field, when the node has a description
docstring(indent, text) == IF text # "" THEN <<indent \o "\"\"\"" \o text \o "\"\"\"">> ELSE <<>>

\* the lines the loop of _generate_inputs_typeddict appends
RECURSIVE input_fields(_)
input_fields(dynamic_inputs) ==
    IF Len(dynamic_inputs) = 0 THEN <<>>
    ELSE <<"    " \o _sanitize_identifier(dynamic_inputs[1]["id"]) \o ": "
           \o type_hint(dynamic_inputs[1])>>
         \o docstring("    ", description_of(dynamic_inputs[1]))
         \o input_fields(Tail(dynamic_inputs))

\* on nodes that all have an id; node['id'] raises KeyError otherwise
_generate_inputs_typeddict(dynamic_inputs, class_name) ==
    join("\n", <<"class " \o class_name \o "(TypedDict, total=True):",
                 "    \"\"\"Dynamic inputs for the pricing model.\"\"\"">>
               \o (IF Len(dynamic_inputs) = 0 THEN <<"    pass">>
                   ELSE input_fields(dynamic_inputs)))

\* the lines the loop of _generate_batch_inputs_typeddict appends
RECURSIVE batch_fields(_)
batch_fields(dynamic_inputs) ==
    IF Len(dynamic_inputs) = 0 THEN <<>>
    ELSE <<"    " \o _sanitize_identifier(dynamic_inputs[1]["id"]) \o ": Sequence[float]">>
         \o docstring("    ", IF description_of(dynamic_inputs[1]) # ""
                              THEN "Sequence of values: " \o description_of(dynamic_inputs[1])
                              ELSE "")
         \o batch_fields(Tail(dynamic_inputs))

\* on nodes that all have an id; node['id'] raises KeyError otherwise
_generate_batch_inputs_typeddict(dynamic_inputs, class_name) ==
    join("\n", <<"class " \o class_name \o "(TypedDict, total=True):",
                 "    \"\"\"Batch inputs for the pricing model (sequences of floats).\"\"\"">>
               \o (IF Len(dynamic_inputs) = 0 THEN <<"    pass">>
                   ELSE batch_fields(dynamic_inputs)))

\* the Args lines of the calculate signature: f'            {safe_id}: {name}'
RECURSIVE arg_lines(_)
arg_lines(dynamic_inputs) ==
    IF Len(dynamic_inputs) = 0 THEN <<>>
    ELSE <<"            " \o _sanitize_identifier(dynamic_inputs[1]["id"]) \o ": "
           \o get(get(dynamic_inputs[1], "metadata", <<>>), "name", dynamic_inputs[1]["id"])>>
         \o arg_lines(Tail(dynamic_inputs))

\* the fixed lines of the stub: codegen.py:135-148, 161-175, 184-205
StubHead ==
    <<"\"\"\"",
      "Type stubs for OpenPricing engine.",
      "",
      "Auto-generated from pricing_model.json.",
      "Do not edit manually.",
      "\"\"\"",
      "",
      "from __future__ import annotations",
      "",
      "from typing import List, Literal, Sequence, TypedDict, Unpack",
      "",
      "">>

EngineHead ==
    <<"class TypedPricingEngine:",
      "    \"\"\"",
      "    Typed pricing engine with autocomplete support.",
      "    ",
      "    All dynamic inputs are available as keyword arguments with",
      "    proper type hints for IDE autocomplete.",
      "    \"\"\"",
      "    ",
      "    def calculate(self, **inputs: Unpack[PricingInputs]) -> float:",
      "        \"\"\"",
      "        Calculate the pricing result.",
      "        ",
      "        Args:">>

EngineTail ==
    <<"        ",
      "        Returns:",
      "            The calculated price.",
      "        \"\"\"",
      "        ...",
      "    ",
      "    def calculate_batch(",
      "        self,",
      "        inputs: PricingBatchInputs",
      "    ) -> List[float]:",
      "        \"\"\"",
      "        Calculate prices for a batch of inputs.",
      "        ",
      "        Args:",
      "            inputs: Dictionary of input sequences",
      "        ",
      "        Returns:",
      "            List of calculated prices.",
      "        \"\"\"",
      "        ...">>

\* the list lines of generate_typed_stub
stub_lines(dynamic_inputs) ==
    StubHead
    \o <<_generate_inputs_typeddict(dynamic_inputs, "PricingInputs"), "", "">>
    \o <<_generate_batch_inputs_typeddict(dynamic_inputs, "PricingBatchInputs"), "", "">>
    \o EngineHead
    \o arg_lines(dynamic_inputs)
    \o EngineTail

\* n.get('operation', '').startswith('dynamic_input')
is_dynamic_input(n) == startswith(get(n, "operation", ""), "dynamic_input")

\* mutant of dynamic_inputs_of: the nodes are not filtered
dynamic_inputs_unfiltered(nodes) == nodes

\* dynamic_inputs = [n for n in nodes if ...]
dynamic_inputs_of(nodes) == SelectSeq(nodes, is_dynamic_input)

\* generate_typed_stub once dynamic_inputs is built
stub_of(dynamic_inputs) ==
    IF \E i \in 1..Len(dynamic_inputs) : "id" \notin DOMAIN dynamic_inputs[i]
    THEN Raise("KeyError", <<Part("id", {}, 0)>>)
    ELSE Return(join("\n", stub_lines(dynamic_inputs)))

\* generate_typed_stub(model_json_path, output_path): what it returns or raises
generate_typed_stub(schema) ==
    IF ~schema.exists
    THEN Raise("FileNotFoundError", <<Part("No such file or directory", {}, 0)>>)
    ELSE stub_of(dynamic_inputs_of(schema.nodes))

(***************************************************************************)
(* The generator run over one schema file, which stays unchanged.          *)
(***************************************************************************)
\* allowed_str_values: plain words
Words == <<"gold", "silver">>

NodePool ==
    { [id |-> "code", operation |-> "dynamic_input_str", allowed_str_values |-> Words,
       metadata |-> [name |-> "Code", description |-> "customer tier"]],
      [id |-> "a-b", operation |-> "dynamic_input_str",
       allowed_values |-> <<PyInt(1)>>],
      [id |-> "a_b", operation |-> "dynamic_input_num",
       allowed_values |-> <<PyInt(1), PyFloat(2)>>, allowed_str_values |-> Words],
      [id |-> "7x", operation |-> "dynamic_input_num", allowed_values |-> <<>>,
       metadata |-> [name |-> "Seventh"]],
      [id |-> "flag", operation |-> "dynamic_input_bool"],
      [id |-> "k", operation |-> "constant"],
      [id |-> "n"],
      [operation |-> "dynamic_input_num"],
      [operation |-> "constant"] }

\* the schema files: none at the path, or a document with up to MaxNodes nodes
StubSchemas ==
    {NoSchema} \cup {[exists |-> TRUE, nodes |-> ns] : ns \in SeqsUpTo(NodePool, MaxNodes)}

InitCodegen ==
    /\ lib = [ids |-> <<>>, nodes |-> 0]
    /\ model_json \in StubSchemas
    /\ _model_info = None
    /\ _dynamic_input_ids = None
    /\ inputValues = FreshValues(lib)
    /\ enumLog = <<>>
    /\ request = <<>>
    /\ last = [op |-> "__init__", fault |-> 0, cold |-> TRUE,
               calls |-> <<>>, out |-> Return(<<>>)]
    /\ main = NotStarted
    /\ threads = <<>>
    /\ stubs = <<>>
    /\ output_file = None

\* a run that ended as out; with output_path given, the content is written
Generated(output_path, out) ==
    /\ stubs' = Append(stubs, out)
    /\ output_file' = IF output_path /\ out.kind = "return" THEN Some(out.value)
                      ELSE output_file
    /\ last' = Record("generate_typed_stub", 0, <<>>, out)

\* generate_typed_stub(model_json_path, output_path)
GenerateStub ==
    /\ Len(stubs) < MaxRuns
    /\ \E output_path \in BOOLEAN : Generated(output_path, generate_typed_stub(model_json))
    /\ UNCHANGED <<lib, model_json, _dynamic_input_ids, _model_info, inputValues, enumLog,
                   request, main, threads>>

NextCodegen == GenerateStub

SpecCodegen == InitCodegen /\ [][NextCodegen]_vars

(***************************************************************************)
(* Reading a generated stub back: its lines, the fields of a structural    *)
(* type, the parameters the calculate signature describes.                 *)
(***************************************************************************)
\* the positions at which sep occurs in text
SepAt(text, sep) ==
    {i \in 1..(Len(text) - Len(sep) + 1) : SubSeq(text, i, i + Len(sep) - 1) = sep}

RECURSIVE Sorted(_)
Sorted(S) ==
    IF S = {} THEN <<>>
    ELSE <<CHOOSE x \in S : \A y \in S : x <= y>>
         \o Sorted(S \ {CHOOSE x \in S : \A y \in S : x <= y})

Pieces(text, sep, at) ==
    [k \in 1..(Len(at) + 1) |->
       SubSeq(text, IF k = 1 THEN 1 ELSE at[k - 1] + Len(sep),
                    IF k = Len(at) + 1 THEN Len(text) ELSE at[k] - 1)]

\* text.split(sep)
Split(text, sep) == Pieces(text, sep, Sorted(SepAt(text, sep)))

\* the first line equal to text, and the first empty line after line from
LineOf(lines, text) ==
    CHOOSE i \in 1..Len(lines) : lines[i] = text /\ \A j \in 1..(i - 1) : lines[j] # text

EndOf(lines, from, blank) ==
    CHOOSE i \in from..Len(lines) : lines[i] = blank /\ \A j \in from..(i - 1) : lines[j] # blank

IsFieldLine(l) == ~startswith(l, "    \"\"\"") /\ l # "    pass"

\* the field lines of the structural type that begins at line header
FieldLines(lines, header) ==
    SelectSeq(SubSeq(lines, LineOf(lines, header) + 2,
                     EndOf(lines, LineOf(lines, header), "") - 1),
              IsFieldLine)

\* the parameter lines under the first "Args:", up to the line that ends them
ArgLines(lines) ==
    SubSeq(lines, LineOf(lines, "        Args:") + 1,
           EndOf(lines, LineOf(lines, "        Args:"), "        ") - 1)

ColonAt(l) == CHOOSE i \in SepAt(l, ": ") : \A j \in SepAt(l, ": ") : i <= j

\* the name and the type of a line "<indent>name: type"
NameIn(l, indent) == SubSeq(l, indent + 1, ColonAt(l) - 1)
TypeIn(l) == SubSeq(l, ColonAt(l) + 2, Len(l))

NamesIn(ls, indent) == [i \in 1..Len(ls) |-> NameIn(ls[i], indent)]

\* the values a type hint Literal[v1, v2, ...] admits, as written
LiteralItems(t) ==
    IF startswith(t, "Literal[") /\ SubSeq(t, Len(t), Len(t)) = "]"
    THEN Split(SubSeq(t, Len("Literal[") + 1, Len(t) - 1), ", ")
    ELSE <<>>

\* the nodes of the schema whose operation starts with the dynamic-input tag
Tagged(n) == "operation" \in DOMAIN n /\ startswith(n.operation, "dynamic_input")
TaggedNodes == SelectSeq(model_json.nodes, Tagged)

\* the field names the schema calls for, in schema node order
SchemaFieldNames == [i \in 1..Len(TaggedNodes) |-> _sanitize_identifier(TaggedNodes[i]["id"])]

InputsHeader == "class PricingInputs(TypedDict, total=True):"
BatchHeader == "class PricingBatchInputs(TypedDict, total=True):"

(***************************************************************************)
(* C16: two runs of generate_typed_stub over the same unchanged schema end *)
(* the same way and, when they return, return byte-identical text (which   *)
(* is also what a run given an output path writes); in the inputs type, in *)
(* the batch type and in the description of the calculate signature the    *)
(* fields are the schema's nodes whose operation starts with the           *)
(* dynamic-input tag, in schema node order.                                *)
(***************************************************************************)
FieldsInSchemaOrder(lines) ==
    /\ NamesIn(FieldLines(lines, InputsHeader), Len("    ")) = SchemaFieldNames
    /\ NamesIn(FieldLines(lines, BatchHeader), Len("    ")) = SchemaFieldNames
    /\ NamesIn(ArgLines(lines), Len("            ")) = SchemaFieldNames

TypedByKind(node, t) ==
    IF node.operation = "dynamic_input_str"
    THEN IF "allowed_str_values" \in DOMAIN node /\ node.allowed_str_values # <<>>
         THEN LiteralItems(t) = [j \in 1..Len(node.allowed_str_values) |->
                                   "\"" \o node.allowed_str_values[j] \o "\""]
         ELSE t = "str"
    ELSE IF "allowed_values" \in DOMAIN node /\ node.allowed_values # <<>>
         THEN LiteralItems(t) = [j \in 1..Len(node.allowed_values) |->
                                   str(node.allowed_values[j])]
         ELSE t = "float"

FieldsTypedByKind(fields) ==
    /\ Len(fields) = Len(TaggedNodes)
    /\ \A i \in 1..Len(fields) : TypedByKind(TaggedNodes[i], TypeIn(fields[i]))

C17_FieldTypes ==
    (last.op = "generate_typed_stub" /\ last.out.kind = "return") =>
        \A fields \in {FieldLines(Split(last.out.value, "\n"), InputsHeader)} :
            FieldsTypedByKind(fields)

C17_Witness ==
    /\ last.op = "generate_typed_stub" /\ last.out.kind = "return"
    /\ Len(model_json.nodes) = 2
    /\ get(model_json.nodes[1], "id", "") = "code"
    /\ get(model_json.nodes[2], "id", "") = "a_b"
    /\ FieldLines(Split(last.out.value, "\n"), InputsHeader)
       = <<"    code: Literal[\"gold\", \"silver\"]", "    a_b: Literal[1, 2.0]">>

(***************************************************************************)
(* C19 as claimed: for every schema in which some node has no id, reading  *)
(* it ends in the schema-parse failure, on the generator path              *)
(* (generate_typed_stub) as on the facade's path (model_info): no output   *)
(* is produced.                                                            *)
(***************************************************************************)
C19_MissingIdFailsTheRead ==
    (last.op \in {"generate_typed_stub", "model_info"} /\ SchemaUnreadable) =>
        Raised("KeyError")

(***************************************************************************)
(* C22 as claimed: for every schema whose nodes all have an id, no two the *)
(* same, the generated inputs type and the generated batch type have the   *)
(* same field names in the same order, each type has exactly one field per *)
(* dynamic input, and no two dynamic inputs share a field name.  (A class  *)
(* body that annotates one name twice declares one field of that name.)    *)
(***************************************************************************)
UniqueIds ==
    /\ model_json.exists
    /\ \A i \in 1..Len(model_json.nodes) : "id" \in DOMAIN model_json.nodes[i]
    /\ \A i, j \in 1..Len(model_json.nodes) :
          model_json.nodes[i]["id"] = model_json.nodes[j]["id"] => i = j

\* the fields a structural type with these field lines declares
FieldsOf(names) == {names[i] : i \in 1..Len(names)}

OneFieldEach(names) ==
    /\ Len(names) = Len(TaggedNodes)
    /\ Cardinality(FieldsOf(names)) = Len(TaggedNodes)
    /\ \A i, j \in 1..Len(names) : names[i] = names[j] => i = j

SameFieldsInBoth(lines) ==
    /\ NamesIn(FieldLines(lines, InputsHeader), Len("    "))
       = NamesIn(FieldLines(lines, BatchHeader), Len("    "))
    /\ OneFieldEach(NamesIn(FieldLines(lines, InputsHeader), Len("    ")))
    /\ OneFieldEach(NamesIn(FieldLines(lines, BatchHeader), Len("    ")))

C22_OneFieldPerDynamicInput ==
    (last.op = "generate_typed_stub" /\ last.out.kind = "return" /\ UniqueIds) =>
        \A lines \in {Split(last.out.value, "\n")} : SameFieldsInBoth(lines)

(***************************************************************************)
(* C20 as claimed: every calculate_batch call on a mapping whose key set   *)
(* equals dynamic_input_ids() and whose sequences share one length ends in *)
(* a result sequence of length batch_size, in a ValidationError            *)
(* (ValueError) or in an EngineFault (RuntimeError), for every engine,     *)
(* one with no dynamic input (and the empty mapping) included, and for     *)
(* batch_size 0.                                                           *)
(***************************************************************************)
WellFormedBatch ==
    /\ IdsKnown
    /\ keys(request) = Range(Ids)
    /\ \A i, j \in 1..Len(request) : Len(request[i].v) = Len(request[j].v)

C20_ThreeOutcomes ==
    (BatchRan /\ WellFormedBatch) =>
        \/ /\ last.out.kind = "return"
           /\ \A i \in 1..Len(request) : Len(last.out.value) = Len(request[i].v)
        \/ Raised("ValueError")
        \/ Raised("RuntimeError")

=============================================================================
